---- MODULE Spec2Model ----
(***************************************************************************)
(* Model of the proof publisher, apps/src/bin/publisher.rs.                *)
(*                                                                         *)
(* One run of `main` is a straight line of calls: TxSender::new, the input *)
(* encoding of the selected method, the selected prover's `prove`, the     *)
(* journal decoding and call-data encoding of the selected method, and     *)
(* TxSender::send on a fresh tokio runtime.  Every `?` and every `expect`  *)
(* ends the run.  A state holds one record per run (process invocation);   *)
(* runs share nothing.                                                     *)
(*                                                                         *)
(* U256 values are naturals; the model only uses values below 2^31, so a   *)
(* 32-byte word is non-zero in its last four bytes only.  Byte strings are *)
(* sequences over 0..255.                                                  *)
(***************************************************************************)
EXTENDS Integers, Sequences, FiniteSets, TLC

VARIABLES
    args,      \* args[r]: the parsed command line (method, prover, input)
    pc,        \* pc[r]: the position of run r in main
    txSender,  \* txSender[r]: TRUE once TxSender::new returned Ok
    guest,     \* guest[r]: (program, input) bound at line 94
    proof,     \* proof[r]: (journal, post_state_digest, seal) bound at line 114
    decoded,   \* decoded[r]: <<x>> once the journal was decoded (line 132)
    calldata,  \* calldata[r]: the bytes bound at line 129, <<>> before
    calls,     \* calls[r]: the calls main made so far, in order
    failedAt   \* failedAt[r]: the call that returned Err or panicked, "" if none

vars == <<args, pc, txSender, guest, proof, decoded, calldata, calls, failedAt>>

----------------------------------------------------------------------------
(* Bounds of the model, then the constants of the ABI. *)

\* Journals are up to this many 32-byte words long.
MaxJournalWords == 2

\* The longest seal a prover returns.
MaxSealLen == 33

\* The width of an ABI word (uint256, bytes32), in bytes.
WordBytes == 32

\* The width of a function selector, in bytes.
SelectorBytes == 4

\* The words in the head of (uint256, bytes32, bytes).
HeadWords == 3

\* The model's U256 values are below 2^31: they occupy the last
\* WordBytes / 8 = 4 bytes of a word.
LowBytes == WordBytes \div 8

Inputs == {4, 7, 258}

JournalValues == {4, 258}

Methods == {"IsEven", "Jwt"}

ProverKinds == {"Bonsai", "Local"}

Runs == {1, 2}

----------------------------------------------------------------------------
(* Byte strings and the ABI codec. *)

RECURSIVE Pow256(_)
Pow256(k) == IF k = 0 THEN 1 ELSE 256 * Pow256(k - 1)

Zeros(n) == [i \in 1..n |-> 0]

\* The smallest multiple of WordBytes that is >= n.
PadLen(n) == ((n + WordBytes - 1) \div WordBytes) * WordBytes

\* U256::abi_encode: the 32-byte big-endian encoding of x.
AbiEncodeU256(x) ==
    [i \in 1..WordBytes |->
        IF WordBytes - i >= LowBytes THEN 0
        ELSE (x \div Pow256(WordBytes - i)) % 256]

\* A word whose value is outside the modelled range of U256 reads as this.
OutOfRange == 0 - 1

RECURSIVE BeValue(_)
BeValue(bytes) ==
    IF bytes = <<>> THEN 0
    ELSE 256 * BeValue(SubSeq(bytes, 1, Len(bytes) - 1)) + bytes[Len(bytes)]

\* The big-endian value of a 32-byte word.
FromBeBytes(word) ==
    IF \/ \E i \in 1..(WordBytes - LowBytes) : word[i] # 0
       \/ word[WordBytes - LowBytes + 1] >= 128
    THEN OutOfRange
    ELSE BeValue(SubSeq(word, WordBytes - LowBytes + 1, WordBytes))

\* Mutant: the decoder does not validate (abi_decode(&journal, false)).
U256AbiDecodeLax(data, validate) ==
    IF Len(data) < WordBytes
    THEN [ok |-> FALSE, value |-> 0]
    ELSE [ok |-> TRUE, value |-> FromBeBytes(SubSeq(data, 1, WordBytes))]

\* U256::abi_decode(data, validate): decode one word; with validate, the
\* re-encoding of the decoded value must be the whole of data.
U256AbiDecode(data, validate) ==
    IF Len(data) < WordBytes
    THEN [ok |-> FALSE, value |-> 0]
    ELSE LET v == FromBeBytes(SubSeq(data, 1, WordBytes))
         IN  IF validate /\ AbiEncodeU256(v) # data
             THEN [ok |-> FALSE, value |-> 0]
             ELSE [ok |-> TRUE, value |-> v]

\* The selectors of the two functions of IEvenNumber: the first four bytes
\* of keccak256("set(uint256,bytes32,bytes)"), 0x614d4090, and of
\* keccak256("set_jwt(uint256,bytes32,bytes)"), 0xd18174ad.
Selector(fn) ==
    IF fn = "set" THEN <<97, 77, 64, 144>> ELSE <<209, 129, 116, 173>>

Functions == {"set", "set_jwt"}

\* Mutant: the seal is not padded to a whole number of words.
AbiEncodeCallUnpadded(fn, x, digest, seal) ==
    Selector(fn)
        \o AbiEncodeU256(x)
        \o digest
        \o AbiEncodeU256(HeadWords * WordBytes)
        \o AbiEncodeU256(Len(seal))
        \o seal

\* IEvenNumberCalls::abi_encode: the selector, then the tuple
\* (uint256 x, bytes32 post_state_digest, bytes seal): the head holds x, the
\* digest and the offset of the seal; the tail holds the seal's length and
\* the seal, zero-padded to a whole number of words.
AbiEncodeCall(fn, x, digest, seal) ==
    Selector(fn)
        \o AbiEncodeU256(x)
        \o digest
        \o AbiEncodeU256(HeadWords * WordBytes)
        \o AbiEncodeU256(Len(seal))
        \o seal
        \o Zeros(PadLen(Len(seal)) - Len(seal))

NoCall == [ok |-> FALSE, fn |-> "", x |-> 0, digest |-> <<>>, seal |-> <<>>]

\* IEvenNumberCalls::abi_decode(data, true): the function the selector
\* names and its arguments, read back from the head and the tail.  With
\* validation the data must be the canonical encoding: the seal right after
\* the head, zero padding up to a whole word and nothing after it.
AbiDecodeCall(data) ==
    IF Len(data) < SelectorBytes + HeadWords * WordBytes THEN NoCall
    ELSE
    LET sel  == SubSeq(data, 1, SelectorBytes)
        body == SubSeq(data, SelectorBytes + 1, Len(data))
        Word(at) == SubSeq(body, at + 1, at + WordBytes)
        x    == FromBeBytes(Word(0))
        off  == FromBeBytes(Word(2 * WordBytes))
    IN  IF \A fn \in Functions : Selector(fn) # sel THEN NoCall
        ELSE IF x < 0 \/ off # HeadWords * WordBytes THEN NoCall
        ELSE IF off + WordBytes > Len(body) THEN NoCall
        ELSE
        LET n    == FromBeBytes(Word(off))
            from == off + WordBytes
        IN  IF n < 0 \/ Len(body) # from + PadLen(n) THEN NoCall
            ELSE IF \E i \in (from + n + 1)..Len(body) : body[i] # 0 THEN NoCall
            ELSE [ok     |-> TRUE,
                  fn     |-> CHOOSE fn \in Functions : Selector(fn) = sel,
                  x      |-> x,
                  digest |-> Word(WordBytes),
                  seal   |-> SubSeq(body, from + 1, from + n)]

----------------------------------------------------------------------------
(* What the collaborators can hand back. *)

\* MaxJournalWords consecutive words, the first one encoding v.
JournalStream(v) ==
    [i \in 1..(MaxJournalWords * WordBytes) |->
        AbiEncodeU256(v + ((i - 1) \div WordBytes))[((i - 1) % WordBytes) + 1]]

JournalLens ==
    {0, WordBytes - 1, WordBytes + 1} \cup
    {k * WordBytes : k \in 1..MaxJournalWords}

\* Empty, one byte short of a word, exactly a word, one byte more, and
\* whole numbers of words.
Journals ==
    {SubSeq(JournalStream(v), 1, n) : v \in JournalValues, n \in JournalLens}

\* bytes32 values: FixedBytes<32> holds exactly 32 bytes.
Digests == {AbiEncodeU256(1), AbiEncodeU256(2)}

SealLens == {0, 1, WordBytes, MaxSealLen}

\* Seals of every length class; those of even length end with a zero byte.
Seals == {[i \in 1..n |-> IF i % 2 = 0 THEN 0 ELSE 171] : n \in SealLens}

\* The Ok values of BonsaiProver::prove and LocalProver::prove.
ProofResults == [journal : Journals, digest : Digests, seal : Seals]

NoProof == [journal |-> <<>>, digest |-> <<>>, seal |-> <<>>]

NoGuest == [program |-> "", input |-> <<>>]

\* The signed token generate_token returns: opaque text.
Token == <<101, 121, 74>>

\* bincode::serialize of a string: its length as a little-endian u64, then
\* its bytes.
BincodeSerialize(str) ==
    [i \in 1..8 |->
        IF i > LowBytes THEN 0 ELSE (Len(str) \div Pow256(i - 1)) % 256] \o str

----------------------------------------------------------------------------
(* The steps of main. *)

Final == {"done", "failed"}

\* Invocations run one after the other: run r moves once the runs before
\* it have ended.
Turn(r) == \A q \in DOMAIN pc : q < r => pc[q] \in Final

\* Run r is at `label` and it is its turn.
At(r, label) == pc[r] = label /\ Turn(r)

Called(r, names) == calls' = [calls EXCEPT ![r] = @ \o names]

Goto(r, label) == pc' = [pc EXCEPT ![r] = label]

\* An Err returned through `?`, or a panic of `expect`: main ends here.
Abort(r, call) ==
    /\ pc' = [pc EXCEPT ![r] = "failed"]
    /\ failedAt' = [failedAt EXCEPT ![r] = call]

\* Mutant: the sender is built lazily, not at the start of main.
NewTxSenderLazy(r) ==
    /\ At(r, "new_sender")
    /\ Goto(r, "encode")
    /\ UNCHANGED <<args, txSender, guest, proof, decoded, calldata, calls,
                   failedAt>>

\* Line 85: let tx_sender = TxSender::new(...)?
NewTxSender(r) ==
    /\ At(r, "new_sender")
    /\ Called(r, <<"TxSender::new">>)
    /\ \/ /\ txSender' = [txSender EXCEPT ![r] = TRUE]
          /\ Goto(r, "encode")
          /\ UNCHANGED failedAt
       \/ /\ Abort(r, "TxSender::new")
          /\ UNCHANGED txSender
    /\ UNCHANGED <<args, guest, proof, decoded, calldata>>

\* The calls of the Jwt arm of line 94, in order.
JwtEncodeCalls ==
    <<"Issuer::parse", "Issuer::generate_token", "bincode::serialize">>

\* Lines 94-111: let (program, input) = match args.method { ... }
EncodeInput(r) ==
    /\ At(r, "encode")
    /\ \/ /\ args[r].method = "IsEven"
          /\ Called(r, <<"U256::abi_encode">>)
          /\ guest' = [guest EXCEPT ![r] =
                         [program |-> "IS_EVEN_ELF",
                          input   |-> AbiEncodeU256(args[r].input)]]
          /\ Goto(r, "prove")
          /\ UNCHANGED failedAt
       \/ /\ args[r].method = "Jwt"
          /\ \/ /\ Called(r, JwtEncodeCalls)
                /\ guest' = [guest EXCEPT ![r] =
                               [program |-> "JWT_ELF",
                                input   |-> BincodeSerialize(Token)]]
                /\ Goto(r, "prove")
                /\ UNCHANGED failedAt
             \/ \E k \in 1..Len(JwtEncodeCalls) :
                   \* the k-th call's expect panics
                   /\ Called(r, SubSeq(JwtEncodeCalls, 1, k))
                   /\ Abort(r, JwtEncodeCalls[k])
                   /\ UNCHANGED guest
    /\ UNCHANGED <<args, txSender, proof, decoded, calldata>>

ProveCall(kind) ==
    IF kind = "Bonsai" THEN "BonsaiProver::prove" ELSE "LocalProver::prove"

\* Mutant: a failed proof request is sent again.
ProveRetry(r) ==
    /\ At(r, "prove")
    /\ Called(r, <<ProveCall(args[r].prover)>>)
    /\ \/ \E res \in ProofResults :
             /\ proof' = [proof EXCEPT ![r] = res]
             /\ Goto(r, "decode")
             /\ UNCHANGED failedAt
       \/ /\ failedAt' = [failedAt EXCEPT ![r] = ProveCall(args[r].prover)]
          /\ UNCHANGED <<pc, proof>>
    /\ UNCHANGED <<args, txSender, guest, decoded, calldata>>

\* Lines 114-125: let (journal, post_state_digest, seal) =
\*     match args.prover { .. => X::prove(program, &input)? }
Prove(r) ==
    /\ At(r, "prove")
    /\ Called(r, <<ProveCall(args[r].prover)>>)
    /\ \/ \E res \in ProofResults :
             /\ proof' = [proof EXCEPT ![r] = res]
             /\ Goto(r, "decode")
             /\ UNCHANGED failedAt
       \/ /\ Abort(r, ProveCall(args[r].prover))
          /\ UNCHANGED proof
    /\ UNCHANGED <<args, txSender, guest, decoded, calldata>>

\* Mutant: a journal that does not decode is replaced by the default value
\* (unwrap_or_default in place of `?`).
DecodeJournalDefault(r) ==
    /\ At(r, "decode")
    /\ \/ /\ args[r].method = "IsEven"
          /\ Called(r, <<"U256::abi_decode">>)
          /\ LET d == U256AbiDecode(proof[r].journal, TRUE)
             IN  /\ decoded' = [decoded EXCEPT ![r] = <<d.value>>]
                 /\ failedAt' = [failedAt EXCEPT ![r] =
                                   IF d.ok THEN @ ELSE "U256::abi_decode"]
          /\ Goto(r, "build")
       \/ /\ args[r].method = "Jwt"
          /\ Goto(r, "build")
          /\ UNCHANGED <<calls, decoded, failedAt>>
    /\ UNCHANGED <<args, txSender, guest, proof, calldata>>

\* Mutant: a journal that does not decode makes main ask for a new proof.
DecodeJournalReprove(r) ==
    /\ At(r, "decode")
    /\ \/ /\ args[r].method = "IsEven"
          /\ Called(r, <<"U256::abi_decode">>)
          /\ LET d == U256AbiDecode(proof[r].journal, TRUE)
             IN  \/ /\ d.ok
                    /\ decoded' = [decoded EXCEPT ![r] = <<d.value>>]
                    /\ Goto(r, "build")
                 \/ /\ ~d.ok
                    /\ Goto(r, "prove")
                    /\ UNCHANGED decoded
          /\ UNCHANGED failedAt
       \/ /\ args[r].method = "Jwt"
          /\ Goto(r, "build")
          /\ UNCHANGED <<calls, decoded, failedAt>>
    /\ UNCHANGED <<args, txSender, guest, proof, calldata>>

\* Mutant: the Jwt arm refuses an empty journal.
DecodeJournalNonEmpty(r) ==
    /\ At(r, "decode")
    /\ \/ /\ args[r].method = "IsEven"
          /\ Called(r, <<"U256::abi_decode">>)
          /\ LET d == U256AbiDecode(proof[r].journal, TRUE)
             IN  \/ /\ d.ok
                    /\ decoded' = [decoded EXCEPT ![r] = <<d.value>>]
                    /\ Goto(r, "build")
                    /\ UNCHANGED failedAt
                 \/ /\ ~d.ok
                    /\ Abort(r, "U256::abi_decode")
                    /\ UNCHANGED decoded
       \/ /\ args[r].method = "Jwt"
          /\ IF proof[r].journal = <<>>
             THEN Abort(r, "ensure journal")
             ELSE Goto(r, "build") /\ UNCHANGED failedAt
          /\ UNCHANGED <<calls, decoded>>
    /\ UNCHANGED <<args, txSender, guest, proof, calldata>>

\* Lines 129-132 and 140: the journal is decoded in the IsEven arm only,
\*     let x = U256::abi_decode(&journal, true).context(...)?
DecodeJournal(r) ==
    /\ At(r, "decode")
    /\ \/ /\ args[r].method = "IsEven"
          /\ Called(r, <<"U256::abi_decode">>)
          /\ LET d == U256AbiDecode(proof[r].journal, TRUE)
             IN  \/ /\ d.ok
                    /\ decoded' = [decoded EXCEPT ![r] = <<d.value>>]
                    /\ Goto(r, "build")
                    /\ UNCHANGED failedAt
                 \/ /\ ~d.ok
                    /\ Abort(r, "U256::abi_decode")
                    /\ UNCHANGED decoded
       \/ /\ args[r].method = "Jwt"
          /\ Goto(r, "build")
          /\ UNCHANGED <<calls, decoded, failedAt>>
    /\ UNCHANGED <<args, txSender, guest, proof, calldata>>

\* Mutant: the Jwt arm constructs a call of `set`.
CallOfSet(method, x, input, res) ==
    IF method = "IsEven"
    THEN [fn |-> "set", x |-> x[1],
          digest |-> res.digest, seal |-> res.seal]
    ELSE [fn |-> "set", x |-> input,
          digest |-> res.digest, seal |-> res.seal]

\* Lines 133-137 and 140-144: the call each arm constructs.
CallOf(method, x, input, res) ==
    IF method = "IsEven"
    THEN [fn |-> "set", x |-> x[1],
          digest |-> res.digest, seal |-> res.seal]
    ELSE [fn |-> "set_jwt", x |-> input,
          digest |-> res.digest, seal |-> res.seal]

EncodeCall(fn) ==
    IF fn = "set" THEN "setCall::abi_encode" ELSE "set_jwtCall::abi_encode"

\* Mutant: the seal of a locally made proof is left out of the call.
BuildCalldataByBackend(r) ==
    /\ At(r, "build")
    /\ LET call == CallOf(args[r].method, decoded[r], args[r].input, proof[r])
           seal == IF args[r].prover = "Local" THEN <<>> ELSE call.seal
       IN  /\ Called(r, <<EncodeCall(call.fn)>>)
           /\ calldata' = [calldata EXCEPT ![r] =
                 AbiEncodeCall(call.fn, call.x, call.digest, seal)]
    /\ Goto(r, "send")
    /\ UNCHANGED <<args, txSender, guest, proof, decoded, failedAt>>

\* Mutant: building the call fails on an empty seal.
BuildCalldataChecked(r) ==
    /\ At(r, "build")
    /\ LET call == CallOf(args[r].method, decoded[r], args[r].input, proof[r])
       IN  /\ Called(r, <<EncodeCall(call.fn)>>)
           /\ IF call.seal = <<>>
              THEN /\ Abort(r, EncodeCall(call.fn))
                   /\ UNCHANGED calldata
              ELSE /\ calldata' = [calldata EXCEPT ![r] =
                         AbiEncodeCall(call.fn, call.x, call.digest, call.seal)]
                   /\ Goto(r, "send")
                   /\ UNCHANGED failedAt
    /\ UNCHANGED <<args, txSender, guest, proof, decoded>>

\* Lines 133-145: IEvenNumberCalls::set(..).abi_encode() and
\* IEvenNumberCalls::set_jwt(..).abi_encode(); neither returns a Result.
BuildCalldata(r) ==
    /\ At(r, "build")
    /\ LET call == CallOf(args[r].method, decoded[r], args[r].input, proof[r])
       IN  /\ Called(r, <<EncodeCall(call.fn)>>)
           /\ calldata' = [calldata EXCEPT ![r] =
                 AbiEncodeCall(call.fn, call.x, call.digest, call.seal)]
    /\ Goto(r, "send")
    /\ UNCHANGED <<args, txSender, guest, proof, decoded, failedAt>>

\* Lines 149-152: let runtime = Runtime::new()?;
\*                runtime.block_on(tx_sender.send(calldata))?; Ok(())
Send(r) ==
    /\ At(r, "send")
    /\ \/ /\ Called(r, <<"Runtime::new">>)
          /\ Abort(r, "Runtime::new")
       \/ /\ Called(r, <<"Runtime::new", "TxSender::send">>)
          /\ \/ Abort(r, "TxSender::send")
             \/ Goto(r, "done") /\ UNCHANGED failedAt
    /\ UNCHANGED <<args, txSender, guest, proof, decoded, calldata>>

----------------------------------------------------------------------------
(* Specifications. *)

\* The state of the runs in R after Args::parse (line 82).
Start(R) ==
    /\ args \in [R -> [method : Methods, prover : ProverKinds, input : Inputs]]
    /\ pc = [r \in R |-> "new_sender"]
    /\ txSender = [r \in R |-> FALSE]
    /\ guest = [r \in R |-> NoGuest]
    /\ proof = [r \in R |-> NoProof]
    /\ decoded = [r \in R |-> <<>>]
    /\ calldata = [r \in R |-> <<>>]
    /\ calls = [r \in R |-> <<>>]
    /\ failedAt = [r \in R |-> ""]

\* One invocation of the publisher.
Init == Start({1})

\* Two invocations that differ only in --prover.
InitPair ==
    /\ Start(Runs)
    /\ args[1].method = args[2].method
    /\ args[1].input = args[2].input
    /\ args[1].prover = "Bonsai"
    /\ args[2].prover = "Local"

Next ==
    \/ \E r \in DOMAIN pc : NewTxSender(r)
    \/ \E r \in DOMAIN pc : EncodeInput(r)
    \/ \E r \in DOMAIN pc : Prove(r)
    \/ \E r \in DOMAIN pc : DecodeJournal(r)
    \/ \E r \in DOMAIN pc : BuildCalldata(r)
    \/ \E r \in DOMAIN pc : Send(r)

Spec == Init /\ [][Next]_vars

SpecPair == InitPair /\ [][Next]_vars

----------------------------------------------------------------------------
(* The pipeline stages, as the calls of main realise them. *)

Stages ==
    <<"Setup", "InputEncoder", "ProverBackend", "JournalDecoder",
      "CalldataBuilder", "TransactionSubmitter">>

ProveCalls == {ProveCall(k) : k \in ProverKinds}

BuilderCalls == {EncodeCall(fn) : fn \in Functions}

SubmitCalls == {"Runtime::new", "TxSender::send"}

StageOf(call) ==
    IF call = "TxSender::new" THEN "Setup"
    ELSE IF call \in ProveCalls THEN "ProverBackend"
    ELSE IF call = "U256::abi_decode" THEN "JournalDecoder"
    ELSE IF call \in BuilderCalls THEN "CalldataBuilder"
    ELSE IF call \in SubmitCalls THEN "TransactionSubmitter"
    ELSE "InputEncoder"

Rank(stage) == CHOOSE i \in 1..Len(Stages) : Stages[i] = stage

Made(r, call) == \E i \in 1..Len(calls[r]) : calls[r][i] = call

Count(r, S) == Cardinality({i \in 1..Len(calls[r]) : calls[r][i] \in S})

Failed(r) == failedAt[r] # ""

\* The prover of run r returned a ProofResult.
ProverReturned(r) ==
    /\ Made(r, ProveCall(args[r].prover))
    /\ failedAt[r] # ProveCall(args[r].prover)

IsPrefix(s, t) == Len(s) <= Len(t) /\ s = SubSeq(t, 1, Len(s))

\* The calls of a run of method m with prover k in which nothing fails.
FullRun(m, k) ==
    <<"TxSender::new">>
        \o (IF m = "IsEven" THEN <<"U256::abi_encode">> ELSE JwtEncodeCalls)
        \o <<ProveCall(k)>>
        \o (IF m = "IsEven"
            THEN <<"U256::abi_decode", "setCall::abi_encode">>
            ELSE <<"set_jwtCall::abi_encode">>)
        \o <<"Runtime::new", "TxSender::send">>

----------------------------------------------------------------------------
(* The claims. *)

\* C1: when a call of any stage fails, the run has ended at that call: it
\* is the last call made, no call of a later stage was made, and unless the
\* failure is the submitter's own, TxSender::send was never called and a
\* failed decode leaves no call data behind.
C1_FailureAborts ==
    \A r \in DOMAIN pc :
        Failed(r) =>
            /\ pc[r] = "failed"
            /\ calls[r] # <<>>
            /\ calls[r][Len(calls[r])] = failedAt[r]
            /\ \A i \in 1..Len(calls[r]) :
                   Rank(StageOf(calls[r][i])) <= Rank(StageOf(failedAt[r]))
            /\ StageOf(failedAt[r]) # "TransactionSubmitter"
                   => ~Made(r, "TxSender::send") /\ ~Made(r, "Runtime::new")
            /\ failedAt[r] = "U256::abi_decode" => calldata[r] = <<>>

\* C1 witness: a run whose journal did not decode has ended without call
\* data and without a submission.
C1_Witness ==
    \E r \in DOMAIN pc :
        /\ failedAt[r] = "U256::abi_decode"
        /\ pc[r] = "failed"
        /\ ~Made(r, "TxSender::send")

\* C2: the calls made so far are an initial part of the one fixed sequence
\* of calls of the run's method and prover (encoder, prover, decoder,
\* builder, submitter, in this order, each call once), and every call but
\* the last one made has succeeded.
C2_FixedOrder ==
    \A r \in DOMAIN pc :
        /\ IsPrefix(calls[r], FullRun(args[r].method, args[r].prover))
        /\ \A i \in 1..(Len(calls[r]) - 1) : calls[r][i] # failedAt[r]
        /\ \A i, j \in 1..Len(calls[r]) :
               i < j => Rank(StageOf(calls[r][i])) <= Rank(StageOf(calls[r][j]))

\* C2 witness: a numeric-check run that went through all five stages.
C2_Witness ==
    \E r \in DOMAIN pc :
        /\ pc[r] = "done"
        /\ args[r].method = "IsEven"
        /\ calls[r] = FullRun("IsEven", args[r].prover)

\* C3: the call data, read back with the ABI decoder, is a call of `set`
\* with x the integer the journal encodes in a numeric-check run, and a
\* call of `set_jwt` with x the input of the command line in a
\* token-issuance run; digest and seal are those the prover returned.
C3_CallCarriesX ==
    \A r \in DOMAIN pc :
        calldata[r] # <<>> =>
            LET c == AbiDecodeCall(calldata[r])
            IN  /\ c.ok
                /\ c.digest = proof[r].digest
                /\ c.seal = proof[r].seal
                /\ args[r].method = "IsEven" =>
                       /\ c.fn = "set"
                       /\ Len(proof[r].journal) = WordBytes
                       /\ c.x = FromBeBytes(proof[r].journal)
                /\ args[r].method = "Jwt" =>
                       /\ c.fn = "set_jwt"
                       /\ c.x = args[r].input

\* C3 witness: a token-issuance run submitted call data although its
\* journal encodes an integer other than the input.
C3_Witness ==
    \E r \in DOMAIN pc :
        /\ Made(r, "TxSender::send")
        /\ args[r].method = "Jwt"
        /\ Len(proof[r].journal) = WordBytes
        /\ FromBeBytes(proof[r].journal) # args[r].input
        /\ AbiDecodeCall(calldata[r]).x = args[r].input

\* Run r is past the match of line 129: it has its call data or has failed
\* to decode its journal.
PastBuild(r) == calldata[r] # <<>> \/ failedAt[r] = "U256::abi_decode"

\* C4: two runs with the same method and input whose provers, one remote
\* and one local, returned the same ProofResult have the same call data,
\* and either both or neither failed to decode the journal.
C4_BackendSubstitution ==
    \A a, b \in DOMAIN pc :
        /\ args[a].method = args[b].method
        /\ args[a].input = args[b].input
        /\ args[a].prover # args[b].prover
        /\ ProverReturned(a) /\ ProverReturned(b)
        /\ proof[a] = proof[b]
        /\ PastBuild(a) /\ PastBuild(b)
        => /\ calldata[a] = calldata[b]
           /\ failedAt[a] = "U256::abi_decode" <=> failedAt[b] = "U256::abi_decode"

\* C4 witness: a remote and a local run, both done, with the same proof
\* and a non-empty seal.
C4_Witness ==
    \E a, b \in DOMAIN pc :
        /\ args[a].prover = "Bonsai" /\ args[b].prover = "Local"
        /\ pc[a] = "done" /\ pc[b] = "done"
        /\ proof[a] = proof[b]
        /\ proof[a].seal # <<>>
        /\ calldata[a] = calldata[b]

\* C5: in a numeric-check run that reached the decoder, a journal of
\* exactly one word decodes to the integer it encodes; any other journal
\* (empty, shorter, longer) is a decode error that ends the run before call
\* data is built or submitted.
C5_JournalDecode ==
    \A r \in DOMAIN pc :
        args[r].method = "IsEven" /\ Made(r, "U256::abi_decode") =>
            IF Len(proof[r].journal) = WordBytes
            THEN /\ failedAt[r] # "U256::abi_decode"
                 /\ decoded[r] = <<FromBeBytes(proof[r].journal)>>
                 /\ proof[r].journal = AbiEncodeU256(decoded[r][1])
            ELSE /\ failedAt[r] = "U256::abi_decode"
                 /\ pc[r] = "failed"
                 /\ decoded[r] = <<>>
                 /\ calldata[r] = <<>>
                 /\ Count(r, BuilderCalls \cup SubmitCalls) = 0

\* C5 witness: a journal longer than a word was refused.
C5_Witness ==
    \E r \in DOMAIN pc :
        /\ args[r].method = "IsEven"
        /\ Len(proof[r].journal) > WordBytes
        /\ failedAt[r] = "U256::abi_decode"

\* C6, as claimed: a token-issuance run that builds and submits call data
\* had a non-empty journal.
C6_Original ==
    \A r \in DOMAIN pc :
        args[r].method = "Jwt" /\ Made(r, "TxSender::send")
            => proof[r].journal # <<>>

\* C6, amended: a token-issuance run never inspects the journal: it makes
\* no decode call and never fails between the prover and the submitter, so
\* once the prover has returned the run builds its call data whatever the
\* journal is, the empty journal included.
C6_JournalIgnored ==
    \A r \in DOMAIN pc :
        args[r].method = "Jwt" /\ ProverReturned(r) =>
            /\ ~Made(r, "U256::abi_decode")
            /\ Failed(r) => failedAt[r] \in SubmitCalls
            /\ pc[r] \in {"decode", "build"} \/ calldata[r] # <<>>

\* C6 witness: a token-issuance run with an empty journal was submitted.
C6_Witness ==
    \E r \in DOMAIN pc :
        /\ args[r].method = "Jwt"
        /\ proof[r].journal = <<>>
        /\ pc[r] = "done"
        /\ Made(r, "TxSender::send")

\* The bytes of the call data for a seal of n bytes: the selector, the
\* three head words, the length word and the padded seal.
CallDataLen(n) ==
    SelectorBytes + WordBytes * (HeadWords + 1 + ((n + WordBytes - 1) \div WordBytes))

\* C7, as claimed: the builder fails, and nothing is submitted, when the
\* digest is not 32 bytes or the seal is empty, and never fails otherwise.
C7_Original ==
    \A r \in DOMAIN pc :
        ProverReturned(r) =>
            IF Len(proof[r].digest) # WordBytes \/ proof[r].seal = <<>>
            THEN /\ ~Made(r, "TxSender::send")
                 /\ Count(r, BuilderCalls) > 0 => failedAt[r] \in BuilderCalls
            ELSE failedAt[r] \notin BuilderCalls

\* C7, amended: the builder never fails: the digest the prover returns is
\* 32 bytes long, and for every seal, the empty one included, the builder
\* yields call data of the length the ABI prescribes and the run goes on to
\* the submitter.
C7_BuilderTotal ==
    \A r \in DOMAIN pc :
        /\ failedAt[r] \notin BuilderCalls
        /\ ProverReturned(r) => Len(proof[r].digest) = WordBytes
        /\ Count(r, BuilderCalls) > 0 =>
               /\ Len(calldata[r]) = CallDataLen(Len(proof[r].seal))
               /\ pc[r] \in {"send", "done"} \/ failedAt[r] \in SubmitCalls

\* C7 witness: call data built from an empty seal was submitted.
C7_Witness ==
    \E r \in DOMAIN pc :
        /\ proof[r].seal = <<>>
        /\ Len(calldata[r]) = CallDataLen(0)
        /\ Made(r, "TxSender::send")

\* C8: a run calls a prover at most once and TxSender::send at most once,
\* and an error of either ends the run with that call as its last.
C8_NoRetry ==
    \A r \in DOMAIN pc :
        /\ Count(r, ProveCalls) <= 1
        /\ Count(r, {"TxSender::send"}) <= 1
        /\ failedAt[r] \in ProveCalls \cup {"TxSender::send"} =>
               /\ pc[r] = "failed"
               /\ calls[r][Len(calls[r])] = failedAt[r]

\* C8 witness: a run ended by a failed proof request.
C8_Witness ==
    \E r \in DOMAIN pc :
        /\ failedAt[r] \in ProveCalls
        /\ pc[r] = "failed"
        /\ Count(r, ProveCalls) = 1

\* C9: the call data starts with the selector of the method's function,
\* the two selectors differ, and the ABI decoder reads back the function
\* and the (x, digest, seal) the builder was given.
C9_RoundTrip ==
    /\ Selector("set") # Selector("set_jwt")
    /\ \A r \in DOMAIN pc :
           calldata[r] # <<>> =>
               LET given == CallOf(args[r].method, decoded[r], args[r].input,
                                   proof[r])
                   back  == AbiDecodeCall(calldata[r])
               IN  /\ SubSeq(calldata[r], 1, SelectorBytes) = Selector(given.fn)
                   /\ back = [ok |-> TRUE, fn |-> given.fn, x |-> given.x,
                              digest |-> given.digest, seal |-> given.seal]

\* C9 witness: call data built from a seal that is not a whole number of
\* words reads back as that seal.
C9_Witness ==
    \E r \in DOMAIN pc :
        /\ calldata[r] # <<>>
        /\ Len(proof[r].seal) % WordBytes # 0
        /\ AbiDecodeCall(calldata[r]).seal = proof[r].seal

\* C10: TxSender::new is the first call of every run; no other call is made
\* before it has succeeded, and when it fails it is the only call of the
\* run: no signer, prover or submitter call follows.
C10_SenderFirst ==
    \A r \in DOMAIN pc :
        /\ calls[r] # <<>> => calls[r][1] = "TxSender::new"
        /\ Len(calls[r]) > 1 => txSender[r]
        /\ pc[r] \notin {"new_sender", "failed"} => txSender[r]
        /\ failedAt[r] = "TxSender::new" =>
               /\ calls[r] = <<"TxSender::new">>
               /\ pc[r] = "failed"
               /\ ~txSender[r]
               /\ guest[r] = NoGuest /\ proof[r] = NoProof

\* C10 witness: a run ended by the failure of TxSender::new.
C10_Witness ==
    \E r \in DOMAIN pc :
        /\ failedAt[r] = "TxSender::new"
        /\ pc[r] = "failed"
        /\ calls[r] = <<"TxSender::new">>

====
